---- MODULE Spec2Model ----
(***************************************************************************)
(* A model of the iPad catalog service of src/main.py: the FastAPI        *)
(* handlers over the "ipad" collection of the document store.             *)
(*                                                                         *)
(* Conventions.                                                            *)
(*  - Python strings that the code inspects character by character (the   *)
(*    identifiers given to compare, the name the regex runs on, the chip   *)
(*    that is upper-cased) are read through Chars as tuples of one-letter  *)
(*    strings.                                                             *)
(*  - An Optional[T] is a sequence of length at most one: <<>> is None.    *)
(*  - A float display size is kept in tenths of an inch and a score in     *)
(*    hundredths (0.2 * inches = 2 * tenths / 100).                        *)
(*  - An ObjectId is its 12 bytes, a tuple of numbers in 0..255.           *)
(***************************************************************************)
EXTENDS Integers, Sequences, FiniteSets, TLC

VARIABLES
    db,         \* the store handle of database.py: "None" or "connected"
    coll,       \* db["ipad"]: the documents, in insertion order
    nextOid,    \* the next identifier the store generates
    resp,       \* the response of the handler that ran last
    created,    \* history: the identifier and body of every successful create
    memo,       \* history: one earlier successful compare, remembered
    seedReq,    \* per worker: the position of its seed request
    scoreArg,   \* the record given to compare's score function
    scoreRes    \* what score returned for it (<<>> before it ran)

vars == <<db, coll, nextOid, resp, created, memo, seedReq, scoreArg, scoreRes>>

(***************************************************************************)
(* Bounds of the model.                                                    *)
(***************************************************************************)
MaxDocs == 5
NWorkers == 2
MaxStorage == 3

(***************************************************************************)
(* Strings.                                                                *)
(***************************************************************************)
UpperAlpha ==
    <<"A","B","C","D","E","F","G","H","I","J","K","L","M",
      "N","O","P","Q","R","S","T","U","V","W","X","Y","Z">>

LowerAlpha ==
    <<"a","b","c","d","e","f","g","h","i","j","k","l","m",
      "n","o","p","q","r","s","t","u","v","w","x","y","z">>

UpperChar(c) ==
    IF \E i \in 1..26 : LowerAlpha[i] = c
    THEN UpperAlpha[CHOOSE i \in 1..26 : LowerAlpha[i] = c]
    ELSE c

LowerChar(c) ==
    IF \E i \in 1..26 : UpperAlpha[i] = c
    THEN LowerAlpha[CHOOSE i \in 1..26 : UpperAlpha[i] = c]
    ELSE c

\* str.upper()
Upper(s) == [i \in 1..Len(s) |-> UpperChar(s[i])]

\* The characters of the strings the model uses.
Chars(s) ==
    CASE s = "" -> <<>>
      [] s = "iPad Pro 11" -> <<"i","P","a","d"," ","P","r","o"," ","1","1">>
      [] s = "iPad Air 13" -> <<"i","P","a","d"," ","A","i","r"," ","1","3">>
      [] s = "iPad (10th gen)" ->
             <<"i","P","a","d"," ","(","1","0","t","h"," ","g","e","n",")">>
      [] s = "iPad mini" -> <<"i","P","a","d"," ","m","i","n","i">>
      [] s = "Tab.X" -> <<"T","a","b",".","X">>
      [] s = "Slate" -> <<"S","l","a","t","e">>
      [] s = "PRO" -> <<"P","R","O">>
      [] s = "." -> <<".">>
      [] s = "M4" -> <<"M","4">>
      [] s = "m4" -> <<"m","4">>
      [] s = "M3" -> <<"M","3">>
      [] s = "M2" -> <<"M","2">>
      [] s = "M1" -> <<"M","1">>
      [] s = "A15" -> <<"A","1","5">>
      [] s = "a15" -> <<"a","1","5">>
      [] s = "A14" -> <<"A","1","4">>
      [] s = "Z9" -> <<"Z","9">>

(***************************************************************************)
(* bson.ObjectId: construction from a string, and str().                   *)
(***************************************************************************)
HexDigits ==
    <<"0","1","2","3","4","5","6","7","8","9","a","b","c","d","e","f">>

IsHexChar(c) == \E i \in 1..16 : HexDigits[i] = LowerChar(c)

HexVal(c) == (CHOOSE i \in 1..16 : HexDigits[i] = LowerChar(c)) - 1

\* ObjectId(s) raises InvalidId unless s is 24 hexadecimal characters.
ObjectIdValid(s) == Len(s) = 24 /\ \A i \in 1..24 : IsHexChar(s[i])

\* ObjectId(s): bytes.fromhex(s)
ObjectId(s) == [i \in 1..12 |-> 16 * HexVal(s[2 * i - 1]) + HexVal(s[2 * i])]

\* str(oid): the 24 lower-case hexadecimal characters of its bytes
StrOid(oid) ==
    [i \in 1..24 |->
        IF i % 2 = 1
        THEN HexDigits[(oid[(i + 1) \div 2] \div 16) + 1]
        ELSE HexDigits[(oid[i \div 2] % 16) + 1]]

\* The n-th identifier the store generates.
NewObjectId(n) ==
    [i \in 1..12 |-> IF i = 12 THEN n % 256
                     ELSE IF i = 11 THEN (n \div 256) % 256
                     ELSE 0]

(***************************************************************************)
(* The store: find with a filter, find_one, count_documents, insert.       *)
(***************************************************************************)
\* {"$regex": p, "$options": "i"} on text t: an unanchored search, for the
\* patterns made of literal characters and "." (any character).
RegexSearch(p, t) ==
    \E off \in 0..Len(t) :
        /\ off + Len(p) <= Len(t)
        /\ \A j \in 1..Len(p) :
              \/ p[j] = "."
              \/ LowerChar(p[j]) = LowerChar(t[off + j])

\* One field constraint of a filter on one document.
FieldMatches(d, k, c) ==
    IF k = "name" THEN RegexSearch(Chars(c["$regex"]), Chars(d[k]))
    ELSE IF k = "chip" THEN d[k] = c
    ELSE /\ ("$gte" \in DOMAIN c => d[k] >= c["$gte"])
         /\ ("$lte" \in DOMAIN c => d[k] <= c["$lte"])

Matches(d, filter_dict) ==
    \A k \in DOMAIN filter_dict : FieldMatches(d, k, filter_dict[k])

\* get_documents("ipad", filter_dict): the matching documents, store order
get_documents(filter_dict) ==
    SelectSeq(coll, LAMBDA d : Matches(d, filter_dict))

\* db["ipad"].find_one({"_id": oid}): a document or None
find_one(oid) ==
    LET hits == SelectSeq(coll, LAMBDA d : d["_id"] = oid)
    IN  IF hits = <<>> THEN <<>> ELSE <<hits[1]>>

\* db["ipad"].count_documents({})
count_documents == Len(coll)

\* create_document("ipad", data) on collection c with the store's next
\* identifier n: the collection after it, and the identifier it returns.
create_document(c, n, data) ==
    [coll |-> Append(c, ("_id" :> NewObjectId(n)) @@ data),
     next |-> n + 1,
     id   |-> StrOid(NewObjectId(n))]

(***************************************************************************)
(* serialize_doc                                                           *)
(***************************************************************************)
\* The keys of d whose values are ObjectIds: documents of the IPad schema
\* carry none but the store's own "_id".
ObjectIdKeys(d) == DOMAIN d \cap {"_id"}

\* serialize_doc without the renaming of "_id".
serialize_doc_raw(doc) == doc

serialize_doc(doc) ==
    IF DOMAIN doc = {} THEN doc
    ELSE LET d == IF "_id" \in DOMAIN doc
                  THEN ("id" :> StrOid(doc["_id"]))
                       @@ [k \in DOMAIN doc \ {"_id"} |-> doc[k]]
                  ELSE doc
         IN  [k \in DOMAIN d |->
                IF k \in ObjectIdKeys(d) THEN StrOid(d[k]) ELSE d[k]]

(***************************************************************************)
(* compare_ipads.score, in hundredths.                                     *)
(***************************************************************************)
\* dict.get(k, default)
Get(x, k, default) == IF k \in DOMAIN x THEN x[k] ELSE default

\* chip_score.get(key, 2)
chip_score(key) ==
    CASE key = <<"M","4">> -> 500
      [] key = <<"M","3">> -> 450
      [] key = <<"M","2">> -> 400
      [] key = <<"M","1">> -> 350
      [] key = <<"A","1","5">> -> 300
      [] key = <<"A","1","4">> -> 250
      [] OTHER -> 200

\* score with the chip looked up as written, not upper-cased.
score_case_sensitive(x) ==
    chip_score(Chars(Get(x, "chip", "")))
        + Get(x, "display_size", 0) * 2
        + (IF Get(x, "cellular", FALSE) THEN 1 ELSE 0) * 30
        + Len(Get(x, "storage_options", <<>>)) * 10

score(x) ==
    LET base0 == 0
        base1 == base0 + chip_score(Upper(Chars(Get(x, "chip", ""))))
        base2 == base1 + Get(x, "display_size", 0) * 2
        base3 == base2 + (IF Get(x, "cellular", FALSE) THEN 1 ELSE 0) * 30
        base4 == base3 + Len(Get(x, "storage_options", <<>>)) * 10
    IN  base4

(***************************************************************************)
(* Data: the demo fixture of seed_ipads and the inputs of the handlers.    *)
(***************************************************************************)
EmptyDict == [k \in {} |-> 0]

\* The four IPad records of seed_ipads, in the order of the list.
demo ==
    << [name |-> "iPad Pro 11", generation |-> "M4 (2024)", chip |-> "M4",
        display_size |-> 110, storage_options |-> <<256, 512, 1024>>,
        base_price |-> 999, colors |-> <<"Silver", "Space Black">>,
        supports_pencil |-> "Apple Pencil Pro", cellular |-> TRUE,
        image_url |->
          "https://store.storeimages.cdn-apple.com/4982/as-images.apple.com/is/ipad-pro-11-digitalmat-gallery-1-202404?wid=728&hei=666&fmt=png-alpha&.v=1712605559398"],
       [name |-> "iPad Air 13", generation |-> "M2 (2024)", chip |-> "M2",
        display_size |-> 130, storage_options |-> <<128, 256, 512>>,
        base_price |-> 799,
        colors |-> <<"Blue", "Purple", "Starlight", "Space Gray">>,
        supports_pencil |-> "Apple Pencil Pro", cellular |-> TRUE,
        image_url |->
          "https://store.storeimages.cdn-apple.com/4982/as-images.apple.com/is/ipad-air-13-digitalmat-gallery-1-202405?wid=728&hei=666&fmt=png-alpha&.v=1713836176004"],
       [name |-> "iPad (10th gen)", generation |-> "A14 (2022)",
        chip |-> "A14", display_size |-> 109,
        storage_options |-> <<64, 256>>, base_price |-> 349,
        colors |-> <<"Blue", "Pink", "Yellow", "Silver">>,
        supports_pencil |-> "USB-C Apple Pencil", cellular |-> TRUE,
        image_url |->
          "https://store.storeimages.cdn-apple.com/4982/as-images.apple.com/is/ipad-10th-gen-hero-blue-wifi-select?wid=540&hei=540&fmt=jpeg&qlt=90&.v=1664481087749"],
       [name |-> "iPad mini", generation |-> "A15 (2021)", chip |-> "A15",
        display_size |-> 83, storage_options |-> <<64, 256>>,
        base_price |-> 499,
        colors |-> <<"Space Gray", "Pink", "Purple", "Starlight">>,
        supports_pencil |-> "Apple Pencil (2nd gen)", cellular |-> TRUE,
        image_url |->
          "https://store.storeimages.cdn-apple.com/4982/as-images.apple.com/is/ipad-mini-select-202109_GEO_US?wid=540&hei=540&fmt=jpeg&qlt=90&.v=1631751068000"] >>

\* Bodies given to create: valid IPad models.  The first scores as the
\* first demo record does (its chip in lower case); the second has a chip
\* the tier table does not know.
TabX ==
    [name |-> "Tab.X", generation |-> "M4 (2024)", chip |-> "m4",
     display_size |-> 110, storage_options |-> <<256, 512, 1024>>,
     base_price |-> 899, colors |-> <<"Silver">>,
     supports_pencil |-> "Apple Pencil Pro", cellular |-> TRUE,
     image_url |-> "https://example.com/tab-x.png"]

Slate ==
    [name |-> "Slate", generation |-> "Z9 (2020)", chip |-> "Z9",
     display_size |-> 97, storage_options |-> <<>>,
     base_price |-> 199, colors |-> <<"Black">>,
     supports_pencil |-> "", cellular |-> FALSE,
     image_url |-> "https://example.com/slate.png"]

CreateBodies == {TabX, Slate}

\* Query parameters of list: None is <<>>.  Display bounds are >= 0, as
\* Query(None, ge=0) admits.
QueryValues == {<<>>, <<"">>, <<"PRO">>, <<".">>}
ChipValues == {<<>>, <<"">>, <<"M4">>, <<"m4">>}
MinDisplayValues == {<<>>, <<0>>, <<109>>, <<130>>}
MaxDisplayValues == {<<>>, <<0>>, <<110>>}

\* Identifiers given to compare: those of the first MaxDocs + 1 documents
\* the store can hold (the last references no record), and malformed ones:
\* the empty string, 23 hexadecimal characters, 24 characters not all
\* hexadecimal.
WellFormedIds == {StrOid(NewObjectId(n)) : n \in 1..(MaxDocs + 1)}

MalformedIds ==
    { <<>>,
      [i \in 1..23 |-> "0"],
      [i \in 1..24 |-> IF i = 24 THEN "z" ELSE "0"] }

CompareIds == WellFormedIds \cup MalformedIds

Workers == 1..NWorkers

(***************************************************************************)
(* Responses.                                                              *)
(***************************************************************************)
\* What a handler answered: the route, its parameters, the status, the
\* body, what it read from the store that decided its course (seen), and
\* the number of store reads and writes it made.
Response(op, req, status, body, seen, reads, writes) ==
    [op |-> op, req |-> req, status |-> status, body |-> body,
     seen |-> seen, reads |-> reads, writes |-> writes]

NoResponse == Response("none", <<>>, 0, <<>>, <<>>, 0, 0)

\* raise HTTPException(status_code, detail), or an exception no handler
\* catches (500).
Error(op, req, status, detail, reads, writes) ==
    Response(op, req, status, [detail |-> detail], <<>>, reads, writes)

(***************************************************************************)
(* The handlers.  Each takes, after its parameters, `fault`: which store   *)
(* call of this invocation raises (0: none does).                          *)
(***************************************************************************)
Frame == UNCHANGED <<db, memo, seedReq, scoreArg, scoreRes>>

\* A handler that does not check the handle.
db_is_none_unchecked == FALSE

\* `if db is None`
db_is_none == db = "None"

\* GET /
read_root ==
    /\ resp' = Response("read_root", <<>>, 200,
                        [message |-> "Hello from FastAPI Backend!"],
                        <<>>, 0, 0)
    /\ UNCHANGED <<coll, nextOid, created>>
    /\ Frame

\* GET /api/hello
hello ==
    /\ resp' = Response("hello", <<>>, 200,
                        [message |-> "Hello from the backend API!"],
                        <<>>, 0, 0)
    /\ UNCHANGED <<coll, nextOid, created>>
    /\ Frame

\* GET /test (the two fields read from the environment are left out)
test_database(fault) ==
    /\ resp' =
         IF ~db_is_none
         THEN IF fault = 1
              THEN Response("test_database", <<>>, 200,
                            [backend |-> "Running",
                             database |-> "Connected but Error",
                             connection_status |-> "Connected",
                             collections |-> <<>>],
                            <<>>, 1, 0)
              ELSE Response("test_database", <<>>, 200,
                            [backend |-> "Running",
                             database |-> "Connected & Working",
                             connection_status |-> "Connected",
                             collections |->
                                 IF Len(coll) > 0 THEN <<"ipad">> ELSE <<>>],
                            <<>>, 1, 0)
         ELSE Response("test_database", <<>>, 200,
                       [backend |-> "Running",
                        database |-> "Available but not initialized",
                        connection_status |-> "Not Connected",
                        collections |-> <<>>],
                       <<>>, 0, 0)
    /\ UNCHANGED <<coll, nextOid, created>>
    /\ Frame

\* `if v:` on an Optional[str]
Truthy(v) == v # <<>> /\ v[1] # ""

\* The filter list_ipads builds.
BuildFilter(q, chip, min_display, max_display) ==
    LET f0 == EmptyDict
        f1 == IF Truthy(q)
              THEN ("name" :> (("$regex" :> q[1]) @@ ("$options" :> "i")))
                   @@ f0
              ELSE f0
        f2 == IF Truthy(chip) THEN ("chip" :> chip[1]) @@ f1 ELSE f1
        rng0 == EmptyDict
        rng1 == IF min_display # <<>>
                THEN ("$gte" :> min_display[1]) @@ rng0 ELSE rng0
        rng2 == IF max_display # <<>>
                THEN ("$lte" :> max_display[1]) @@ rng1 ELSE rng1
        f3 == IF min_display # <<>> \/ max_display # <<>>
              THEN ("display_size" :> rng2) @@ f2
              ELSE f2
    IN  f3

\* GET /api/ipads
list_ipads(q, chip, min_display, max_display, fault) ==
    LET req == [q |-> q, chip |-> chip, min_display |-> min_display,
                max_display |-> max_display]
    IN
    /\ resp' =
         IF db_is_none
         THEN Error("list", req, 500, "Database not configured", 0, 0)
         ELSE IF fault = 1
         THEN Error("list", req, 500, "Internal Server Error", 1, 0)
         ELSE LET filter_dict ==
                      BuildFilter(q, chip, min_display, max_display)
                  docs == get_documents(filter_dict)
              IN  Response("list", req, 200,
                           [i \in 1..Len(docs) |-> serialize_doc(docs[i])],
                           <<>>, 1, 0)
    /\ UNCHANGED <<coll, nextOid, created>>
    /\ Frame

\* create_ipad answering 201 without the insert.
create_ipad_no_insert(model, fault) ==
    /\ Len(coll) < MaxDocs
    /\ resp' = IF db_is_none
               THEN Error("create", model, 500,
                          "Database not configured", 0, 0)
               ELSE Response("create", model, 201,
                             [id |-> StrOid(NewObjectId(nextOid))],
                             <<>>, 0, 1)
    /\ UNCHANGED <<coll, nextOid, created>>
    /\ Frame

\* POST /api/ipads
create_ipad(model, fault) ==
    /\ Len(coll) < MaxDocs
    /\ IF db_is_none
       THEN /\ resp' = Error("create", model, 500,
                             "Database not configured", 0, 0)
            /\ UNCHANGED <<coll, nextOid, created>>
       ELSE IF fault = 1
       THEN /\ resp' = Error("create", model, 500,
                             "Internal Server Error", 0, 0)
            /\ UNCHANGED <<coll, nextOid, created>>
       ELSE LET r == create_document(coll, nextOid, model)
            IN  /\ coll' = r.coll
                /\ nextOid' = r.next
                /\ resp' = Response("create", model, 201, [id |-> r.id],
                                    <<>>, 0, 1)
                /\ created' = created \cup {[id |-> r.id, model |-> model]}
    /\ Frame

\* `not doc` on what find_one returned
Falsy(doc) == doc = <<>> \/ DOMAIN doc[1] = {}

\* The payload with the tie given to "B".
CompareBodyStrict(a_doc, b_doc) ==
    LET a == serialize_doc(a_doc)
        b == serialize_doc(b_doc)
    IN  [a |-> a, b |-> b, scores |-> [a |-> score(a), b |-> score(b)],
         recommended |-> IF score(a) > score(b) THEN "A" ELSE "B"]

\* The success payload of compare_ipads for the two documents found.
CompareBody(a_doc, b_doc) ==
    LET a == serialize_doc(a_doc)
        b == serialize_doc(b_doc)
        a_score == score(a)
        b_score == score(b)
        recommendation == IF a_score >= b_score THEN "A" ELSE "B"
    IN  [a |-> a, b |-> b, scores |-> [a |-> a_score, b |-> b_score],
         recommended |-> recommendation]

\* POST /api/ipads/compare
compare_ipads(a, b, fault) ==
    LET req == [a |-> a, b |-> b]
        invalid(n) == Error("compare", req, 400, "Invalid id format", n, 0)
    IN
    /\ resp' =
         IF db_is_none
         THEN Error("compare", req, 500, "Database not configured", 0, 0)
         ELSE IF ~ObjectIdValid(a) THEN invalid(0)
         ELSE IF fault = 1 THEN invalid(1)
         ELSE IF ~ObjectIdValid(b) THEN invalid(1)
         ELSE IF fault = 2 THEN invalid(2)
         ELSE LET a_doc == find_one(ObjectId(a))
                  b_doc == find_one(ObjectId(b))
              IN  IF Falsy(a_doc) \/ Falsy(b_doc)
                  THEN Error("compare", req, 404,
                             "One or both models not found", 2, 0)
                  ELSE Response("compare", req, 200,
                                CompareBody(a_doc[1], b_doc[1]),
                                <<>>, 2, 0)
    /\ UNCHANGED <<coll, nextOid, created>>
    /\ Frame

\* The loop returning after its first round.
seed_loop_once(items, c, n, inserted, fault) ==
    IF items = <<>> \/ fault = inserted + 1
    THEN [coll |-> c, next |-> n, inserted |-> inserted,
          raised |-> items # <<>>]
    ELSE LET r == create_document(c, n, Head(items))
         IN  [coll |-> r.coll, next |-> r.next, inserted |-> inserted + 1,
              raised |-> FALSE]

\* The loop of seed_ipads over the items left, on collection c: the
\* fault-th insert of the loop raises (0: none).
RECURSIVE seed_loop(_, _, _, _, _)
seed_loop(items, c, n, inserted, fault) ==
    IF items = <<>>
    THEN [coll |-> c, next |-> n, inserted |-> inserted, raised |-> FALSE]
    ELSE IF fault = inserted + 1
    THEN [coll |-> c, next |-> n, inserted |-> inserted, raised |-> TRUE]
    ELSE LET r == create_document(c, n, Head(items))
         IN  seed_loop(Tail(items), r.coll, r.next, inserted + 1, fault)

\* POST /api/ipads/seed.  Store call 1 is the count, calls 2.. the inserts.
seed_ipads(fault) ==
    /\ IF db_is_none
       THEN /\ resp' = Error("seed", <<>>, 500,
                             "Database not configured", 0, 0)
            /\ UNCHANGED <<coll, nextOid>>
       ELSE IF fault = 1
       THEN /\ resp' = Error("seed", <<>>, 500,
                             "Internal Server Error", 1, 0)
            /\ UNCHANGED <<coll, nextOid>>
       ELSE LET count == count_documents
            IN  IF count > 0
                THEN /\ resp' = Response("seed", <<>>, 200,
                                   [inserted |-> 0,
                                    message |-> "Catalog already has data"],
                                   <<count>>, 1, 0)
                     /\ UNCHANGED <<coll, nextOid>>
                ELSE LET r == seed_loop(demo, coll, nextOid, 0,
                                        IF fault = 0 THEN 0 ELSE fault - 1)
                     IN  /\ coll' = r.coll
                         /\ nextOid' = r.next
                         /\ resp' =
                              IF r.raised
                              THEN [Error("seed", <<>>, 500,
                                          "Internal Server Error",
                                          1, r.inserted)
                                    EXCEPT !.seen = <<count>>]
                              ELSE Response("seed", <<>>, 200,
                                            [inserted |-> r.inserted],
                                            <<count>>, 1, r.inserted)
    /\ UNCHANGED created
    /\ Frame

(***************************************************************************)
(* seed_ipads step by step, for requests served concurrently: the count    *)
(* and each insert are single store operations, and the requests of        *)
(* different workers interleave between them.                              *)
(***************************************************************************)
SeedIdle == [pc |-> "idle", i |-> 0, inserted |-> 0, status |-> 0]

ConcFrame == UNCHANGED <<db, resp, memo, scoreArg, scoreRes>>

\* Lines 178-183: the handle check, the count, the early return.
seed_begin(w) ==
    /\ seedReq[w].pc = "idle"
    /\ seedReq' =
         [seedReq EXCEPT ![w] =
            IF db_is_none
            THEN [pc |-> "done", i |-> 0, inserted |-> 0, status |-> 500]
            ELSE IF count_documents > 0
            THEN [pc |-> "done", i |-> 0, inserted |-> 0, status |-> 200]
            ELSE [pc |-> "loop", i |-> 1, inserted |-> 0, status |-> 0]]
    /\ UNCHANGED <<coll, nextOid, created>>
    /\ ConcFrame

\* Lines 237-239: one round of the loop.
seed_insert(w) ==
    /\ seedReq[w].pc = "loop"
    /\ seedReq[w].i <= Len(demo)
    /\ LET r == create_document(coll, nextOid, demo[seedReq[w].i])
       IN  /\ coll' = r.coll
           /\ nextOid' = r.next
    /\ seedReq' = [seedReq EXCEPT ![w].i = @ + 1, ![w].inserted = @ + 1]
    /\ UNCHANGED created
    /\ ConcFrame

\* Line 241: the response.
seed_return(w) ==
    /\ seedReq[w].pc = "loop"
    /\ seedReq[w].i > Len(demo)
    /\ seedReq' = [seedReq EXCEPT ![w].pc = "done", ![w].status = 200]
    /\ UNCHANGED <<coll, nextOid, created>>
    /\ ConcFrame

(***************************************************************************)
(* Specifications.                                                         *)
(***************************************************************************)
Init ==
    /\ db \in {"None", "connected"}
    /\ coll = <<>>
    /\ nextOid = 1
    /\ resp = NoResponse
    /\ created = {}
    /\ memo = <<>>
    /\ seedReq = [w \in Workers |-> SeedIdle]
    /\ scoreArg = EmptyDict
    /\ scoreRes = <<>>

\* Requests served one after the other by a store that does not fail: a
\* request is taken once the response to the one before it is delivered.
Idle == resp = NoResponse

Deliver ==
    /\ resp # NoResponse
    /\ resp' = NoResponse
    /\ UNCHANGED <<db, coll, nextOid, created, memo, seedReq, scoreArg, scoreRes>>

ReadRoot == Idle /\ read_root
Hello == Idle /\ hello
TestDatabase == Idle /\ test_database(0)
ListIpads ==
    /\ Idle
    /\ \E q \in QueryValues, chip \in ChipValues,
          lo \in MinDisplayValues, hi \in MaxDisplayValues :
           list_ipads(q, chip, lo, hi, 0)
CreateIpad == Idle /\ \E model \in CreateBodies : create_ipad(model, 0)
CompareIpads ==
    /\ Idle
    /\ \E a \in CompareIds, b \in CompareIds : compare_ipads(a, b, 0)
SeedIpads == Idle /\ seed_ipads(0)

Next ==
    \/ ReadRoot
    \/ Hello
    \/ TestDatabase
    \/ ListIpads
    \/ CreateIpad
    \/ CompareIpads
    \/ SeedIpads
    \/ Deliver

Spec == Init /\ [][Next]_vars

\* The same requests, any store call of which may raise.
TestDatabaseF == Idle /\ \E fault \in 0..1 : test_database(fault)
ListIpadsF ==
    /\ Idle
    /\ \E q \in {<<>>, <<"PRO">>}, fault \in 0..1 :
           list_ipads(q, <<>>, <<>>, <<>>, fault)
CreateIpadF ==
    /\ Idle
    /\ \E model \in CreateBodies, fault \in 0..1 : create_ipad(model, fault)
CompareIpadsF ==
    /\ Idle
    /\ \E a \in CompareIds, b \in CompareIds, fault \in 0..2 :
           compare_ipads(a, b, fault)
SeedIpadsF == Idle /\ \E fault \in 0..(Len(demo) + 1) : seed_ipads(fault)

NextFault ==
    \/ TestDatabaseF
    \/ ListIpadsF
    \/ CreateIpadF
    \/ CompareIpadsF
    \/ SeedIpadsF
    \/ Deliver

SpecFault == Init /\ [][NextFault]_vars

\* Seed requests served concurrently, one per worker.
SeedBegin == \E w \in Workers : seed_begin(w)
SeedInsert == \E w \in Workers : seed_insert(w)
SeedReturn == \E w \in Workers : seed_return(w)

NextConc ==
    \/ SeedBegin
    \/ SeedInsert
    \/ SeedReturn

SpecConc == Init /\ [][NextConc]_vars

\* Compare with the first successful comparison kept for reference,
\* together with the size of the collection it ran on.
Remember ==
    /\ memo = <<>>
    /\ resp.op = "compare"
    /\ resp.status = 200
    /\ memo' = <<[resp |-> resp, size |-> Len(coll)]>>
    /\ UNCHANGED <<db, coll, nextOid, resp, created, seedReq, scoreArg, scoreRes>>

\* create of the one body that ties with the first demo record.
CreateTabX == Idle /\ create_ipad(TabX, 0)

NextCompare ==
    \/ CreateTabX
    \/ SeedIpads
    \/ CompareIpads
    \/ Remember
    \/ Deliver

SpecCompare == Init /\ [][NextCompare]_vars

\* The score function on its own, over records with any of the four
\* fields it reads present or missing.
Part(k, o) == IF o = <<>> THEN EmptyDict ELSE (k :> o[1])

ScoreChips ==
    {<<>>, <<"">>, <<"M4">>, <<"m4">>, <<"M3">>, <<"M2">>, <<"M1">>,
     <<"A15">>, <<"a15">>, <<"A14">>, <<"Z9">>}

ScoreDisplays == {<<>>, <<0>>, <<83>>, <<109>>, <<110>>, <<130>>}

ScoreCellular == {<<>>, <<TRUE>>, <<FALSE>>}

ScoreStorage ==
    {<<>>} \cup {<<[i \in 1..n |-> 64 * i]>> : n \in 0..MaxStorage}

ScoreInputs ==
    { Part("chip", c) @@ Part("display_size", d) @@ Part("cellular", l)
        @@ Part("storage_options", s) :
        c \in ScoreChips, d \in ScoreDisplays, l \in ScoreCellular,
        s \in ScoreStorage }

InitScore ==
    /\ db \in {"None", "connected"}
    /\ coll = <<>>
    /\ nextOid = 1
    /\ resp = NoResponse
    /\ created = {}
    /\ memo = <<>>
    /\ seedReq = [w \in Workers |-> SeedIdle]
    /\ scoreArg \in ScoreInputs
    /\ scoreRes = <<>>

ApplyScore ==
    /\ scoreRes = <<>>
    /\ scoreRes' = <<score(scoreArg)>>
    /\ UNCHANGED <<db, coll, nextOid, resp, created, memo, seedReq, scoreArg>>

NextScore == ApplyScore

SpecScore == InitScore /\ [][NextScore]_vars

(***************************************************************************)
(* Properties.                                                             *)
(***************************************************************************)
\* The data-model fields of a document or of a serialized record.
Fields(d) == [k \in DOMAIN d \ {"_id", "id"} |-> d[k]]

Connected == db = "connected"

\* C1: a seed call on an empty collection inserts exactly the four demo
\* records, in order, and reports inserted = 4; a seed call on a collection
\* that holds a record (seeded or created) inserts nothing, leaves the
\* collection as it was and reports inserted = 0.
C1_SeedInsertsOncePerEmptyCollection ==
    [][ (Connected /\ resp = NoResponse /\ resp'.op = "seed") =>
          /\ resp'.status = 200
          /\ IF Len(coll) = 0
             THEN /\ resp'.body.inserted = 4
                  /\ Len(coll') = 4
                  /\ \A i \in 1..4 : Fields(coll'[i]) = demo[i]
             ELSE /\ resp'.body.inserted = 0
                  /\ coll' = coll ]_vars

\* C1 witness: a seed call answered inserted = 0 on a collection that holds
\* the four demo records of an earlier seed and one created record.
C1_Witness ==
    /\ resp.op = "seed"
    /\ resp.status = 200
    /\ resp.body.inserted = 0
    /\ Len(coll) = 5
    /\ Fields(coll[1]) = demo[1]
    /\ created # {}

RECURSIVE SumInserted(_)
SumInserted(w) ==
    IF w = 0 THEN 0 ELSE seedReq[w].inserted + SumInserted(w - 1)

\* C2: with seed requests interleaving, once every request has finished
\* the collection holds exactly the four demo records and the reported
\* inserted counts sum to 4.
C2_ConcurrentSeedInsertsOnce ==
    (Connected /\ \A w \in Workers : seedReq[w].pc = "done") =>
        /\ Len(coll) = Len(demo)
        /\ SumInserted(NWorkers) = Len(demo)

\* Whether identifier s (well-formed) references no record.
References(s) == \E i \in 1..Len(coll) : coll[i]["_id"] = ObjectId(s)

\* C3: compare answers 400 exactly when one of the identifiers is
\* malformed, 404 exactly when both are well-formed and one references no
\* record, and 200 otherwise - whatever the store lookup does.
C3_CompareClassifiesByIdentifiers ==
    (Connected /\ resp.op = "compare") =>
        resp.status =
            IF ~ObjectIdValid(resp.req.a) \/ ~ObjectIdValid(resp.req.b)
            THEN 400
            ELSE IF ~References(resp.req.a) \/ ~References(resp.req.b)
            THEN 404
            ELSE 200

\* C4: a successful compare recommends "A" exactly when score(a) >=
\* score(b); two records with the same fields give "A"; and a compare of
\* records with the same fields as those of an earlier compare, on any
\* store state, gives the same scores and the same recommendation.
C4_RecommendationByScore ==
    (resp.op = "compare" /\ resp.status = 200) =>
        /\ resp.body.scores.a = score(resp.body.a)
        /\ resp.body.scores.b = score(resp.body.b)
        /\ resp.body.recommended = "A"
             <=> resp.body.scores.a >= resp.body.scores.b
        /\ resp.body.recommended \in {"A", "B"}
        /\ Fields(resp.body.a) = Fields(resp.body.b)
             => resp.body.recommended = "A"
        /\ ( /\ memo # <<>>
             /\ Fields(memo[1].resp.body.a) = Fields(resp.body.a)
             /\ Fields(memo[1].resp.body.b) = Fields(resp.body.b) )
             => /\ memo[1].resp.body.scores = resp.body.scores
                /\ memo[1].resp.body.recommended = resp.body.recommended

\* C4 witness: two records with the same fields compared again, on a
\* larger collection than the first time, and "A" recommended.
C4_Witness ==
    /\ resp.op = "compare"
    /\ resp.status = 200
    /\ memo # <<>>
    /\ memo[1].resp.req = resp.req
    /\ memo[1].size < Len(coll)
    /\ resp.req.a # resp.req.b
    /\ Fields(resp.body.a) = Fields(resp.body.b)
    /\ resp.body.recommended = "A"

\* The chip tiers of the specification, in hundredths.
TierTable ==
    { <<"M4", 500>>, <<"M3", 450>>, <<"M2", 400>>, <<"M1", 350>>,
      <<"A15", 300>>, <<"A14", 250>> }

SameIgnoringCase(s, t) ==
    /\ Len(s) = Len(t)
    /\ \A i \in 1..Len(s) : LowerChar(s[i]) = LowerChar(t[i])

Tier(x) ==
    IF "chip" \in DOMAIN x
       /\ \E e \in TierTable : SameIgnoringCase(Chars(e[1]), Chars(x["chip"]))
    THEN (CHOOSE e \in TierTable :
              SameIgnoringCase(Chars(e[1]), Chars(x["chip"])))[2]
    ELSE 200

ExpectedScore(x) ==
    Tier(x)
    + 2 * (IF "display_size" \in DOMAIN x THEN x["display_size"] ELSE 0)
    + (IF "cellular" \in DOMAIN x /\ x["cellular"] THEN 30 ELSE 0)
    + 10 * (IF "storage_options" \in DOMAIN x
            THEN Len(x["storage_options"]) ELSE 0)

HasShape(x, chip, display, cellular, options) ==
    /\ DOMAIN x = {"chip", "display_size", "cellular", "storage_options"}
    /\ x["chip"] = chip
    /\ x["display_size"] = display
    /\ x["cellular"] = cellular
    /\ Len(x["storage_options"]) = options

\* C5: the score is tier(chip) + 0.2 * display_size + 0.3 if cellular +
\* 0.1 per storage option, the tier looked up without regard to case and 2
\* for a missing or unknown chip; {M4, 11, cellular, 3 options} scores 7.8,
\* as {m4, ...} does, and {A14, 10.9, cellular, 2 options} scores 5.18.
C5_ScoreFormula ==
    scoreRes # <<>> =>
        /\ scoreRes[1] = ExpectedScore(scoreArg)
        /\ HasShape(scoreArg, "M4", 110, TRUE, 3) => scoreRes[1] = 780
        /\ HasShape(scoreArg, "m4", 110, TRUE, 3) => scoreRes[1] = 780
        /\ HasShape(scoreArg, "A14", 109, TRUE, 2) => scoreRes[1] = 518
        /\ "chip" \notin DOMAIN scoreArg =>
              scoreRes[1] = ExpectedScore(scoreArg @@ ("chip" :> "Z9"))

\* C5 witness: the record {m4, 11, cellular, 3 options} scored 7.8.
C5_Witness ==
    /\ scoreRes = <<780>>
    /\ HasShape(scoreArg, "m4", 110, TRUE, 3)

\* Whether text t contains p as a substring, case ignored.
Contains(p, t) ==
    \E off \in 0..Len(t) :
        /\ off + Len(p) <= Len(t)
        /\ \A j \in 1..Len(p) : LowerChar(p[j]) = LowerChar(t[off + j])

\* A string parameter is present when given and not empty.
Present(v) == v # <<>> /\ v[1] # ""

Satisfies(d, req) ==
    /\ Present(req.q) => Contains(Chars(req.q[1]), Chars(d["name"]))
    /\ Present(req.chip) => d["chip"] = req.chip[1]
    /\ req.min_display # <<>> => d["display_size"] >= req.min_display[1]
    /\ req.max_display # <<>> => d["display_size"] <= req.max_display[1]

\* C6: list answers 200 with exactly the records whose name contains q as
\* a substring (case ignored), whose chip is the given chip and whose
\* display size is within the given bounds, each constraint only when its
\* parameter is present.
C6_ListReturnsTheMatches ==
    (Connected /\ resp.op = "list") =>
        /\ resp.status = 200
        /\ LET hits == SelectSeq(coll, LAMBDA d : Satisfies(d, resp.req))
           IN  resp.body = [i \in 1..Len(hits) |-> serialize_doc(hits[i])]

IsIdString(v) == Len(v) = 24 /\ \A i \in 1..24 : IsHexChar(v[i])

Exposed(r) ==
    /\ "id" \in DOMAIN r
    /\ "_id" \notin DOMAIN r
    /\ IsIdString(r["id"])

NoFilter(req) ==
    req.q = <<>> /\ req.chip = <<>>
        /\ req.min_display = <<>> /\ req.max_display = <<>>

\* C7: a list with no filter returns, for every create that succeeded
\* before it, a record whose id is the identifier create returned and
\* whose fields are the body created; every record list or compare
\* returns has a string id and no _id.
C7_CreatedRecordsAreListed ==
    /\ (resp.op = "list" /\ resp.status = 200) =>
          \A i \in 1..Len(resp.body) : Exposed(resp.body[i])
    /\ (resp.op = "compare" /\ resp.status = 200) =>
          Exposed(resp.body.a) /\ Exposed(resp.body.b)
    /\ (resp.op = "create" /\ resp.status = 201) =>
          /\ Len(resp.body.id) > 0
          /\ [id |-> resp.body.id, model |-> resp.req] \in created
    /\ (resp.op = "list" /\ resp.status = 200 /\ NoFilter(resp.req)) =>
          \A c \in created :
              /\ Len(c.id) > 0
              /\ \E i \in 1..Len(resp.body) :
                    /\ resp.body[i]["id"] = c.id
                    /\ Fields(resp.body[i]) = c.model

\* C7 witness: a list with no filter after a seed and a create.
C7_Witness ==
    /\ resp.op = "list"
    /\ resp.status = 200
    /\ NoFilter(resp.req)
    /\ created # {}
    /\ Len(resp.body) = 5

\* C8: with the store handle not configured, list, create, compare and
\* seed answer 500 whatever their parameters and make no store read or
\* write; the greeting and diagnostics endpoints answer 200.
C8_UnconfiguredStoreIs500 ==
    db = "None" =>
        /\ resp.op \in {"list", "create", "compare", "seed"} =>
              /\ resp.status = 500
              /\ resp.reads = 0
              /\ resp.writes = 0
        /\ resp.op \in {"read_root", "hello", "test_database"} =>
              resp.status = 200
        /\ coll = <<>>

\* C8 witness: compare with a malformed identifier answered 500.
C8_Witness ==
    /\ db = "None"
    /\ resp.op = "compare"
    /\ resp.req.a = <<>>
    /\ resp.status = 500

DistinctIds ==
    \A i, j \in 1..Len(coll) : i # j => coll[i]["_id"] # coll[j]["_id"]

\* C9: the identifiers of the collection are pairwise distinct; a record
\* once inserted stays, with its identifier and fields; only create and
\* seed add records, a successful create exactly one; every other endpoint
\* leaves the collection as it is.
C9_RecordsAreKept ==
    /\ []DistinctIds
    /\ [][ /\ Len(coll') >= Len(coll)
           /\ \A i \in 1..Len(coll) : coll'[i] = coll[i]
           /\ coll' # coll => resp'.op \in {"create", "seed"}
           /\ (resp = NoResponse /\ resp'.op = "create"
                 /\ resp'.status = 201)
                 => Len(coll') = Len(coll) + 1 ]_vars

\* C9 witness: the same body created twice, held as two records.
C9_Witness ==
    /\ resp.op = "create"
    /\ \E i, j \in 1..Len(coll) :
          /\ i < j
          /\ Fields(coll[i]) = Fields(coll[j])
          /\ coll[i]["_id"] # coll[j]["_id"]
          /\ StrOid(coll[j]["_id"]) = resp.body.id

\* C10: a handler that answers an error has written nothing, and a seed
\* call on an empty collection leaves it with none or all four of the demo
\* records.
C10_NoPartialEffect ==
    /\ resp.status >= 400 => resp.writes = 0
    /\ (resp.op = "seed" /\ resp.seen = <<0>>) =>
          Len(coll) \in {0, Len(demo)}

====
